---- MODULE Spec2Model ----
(***************************************************************************)
(* trss: a terminal feed reader (src/trss.py).                             *)
(*                                                                         *)
(* The model follows the source object by object: Feeds (the item store),  *)
(* Bus (publish/subscribe), List and Detail (the two panes), Status and    *)
(* the input loop of main.  Python lists are sequences; list indices that  *)
(* the code keeps 0-based (selected, pad_y, AttrText.num) stay 0-based.    *)
(* The dicts of Feeds.items are shared by reference with List.items, so    *)
(* List.items is a sequence of positions in Feeds.items.  What curses      *)
(* draws (the pads, colours, the status text) is not part of the state;    *)
(* an item carries the fields the program reads: link, updated, summary,   *)
(* read and source.                                                        *)
(***************************************************************************)
EXTENDS Integers, Sequences, FiniteSets, TLC

\* ------------------------------------------------------------------ bounds
\* links are 1..MaxLink
MaxLink == 2
\* 'updated' stamps are 1..MaxUpdated (their rank in Python's ordering)
MaxUpdated == 2
\* at most MaxResp entries are returned by the feeds of one refresh cycle
MaxResp == 2
\* at most MaxHandlers handlers are registered per event kind
MaxHandlers == 2
\* the summary of a feed entry has SummaryLines lines of text
SummaryLines == 1
\* curses.LINES, the height of the terminal
Lines == 4

Links == 1..MaxLink
Updateds == 1..MaxUpdated

\* Feeds.sources: the titles of the urls file, in the order of the dict
Sources == <<"X", "Y">>

\* Python's ordering of the source titles ("X" < "Y")
SourceRank(s) == IF s = "X" THEN 1 ELSE 2

\* ------------------------------------------------------------- event kinds
ITEMS_LOADED == "items_loaded"
ITEM_ACTIVATE == "item_activated"
ITEM_READ == "item_read"
Kinds == {ITEMS_LOADED, ITEM_ACTIVATE, ITEM_READ}

\* --------------------------------------------------------------- the state
VARIABLES
    pc,               \* main: "start" (before feeds.load), "loop", "exited", "crashed"
    items,            \* Feeds.items
    storage,          \* the file db.json: [exists, data]
    events,           \* Bus.events: kind -> list of handlers
    source_items,     \* List.source_items is Feeds.items (TRUE) or still [] (FALSE)
    litems,           \* List.items: positions in Feeds.items
    line_to_item,     \* List.line_to_item: the rows (AttrText)
    has_line_to_item, \* the attribute List.line_to_item has been assigned
    selected,         \* List.selected
    pad_y,            \* List.pad_y
    query,            \* List.query has the key 'read' (unread only)
    y,                \* Detail.y
    content,          \* Detail.content, a sequence of characters
    focus,            \* Status.focus
    emitted,          \* the Bus.emit calls of the last operation, in order
    calls             \* the handler invocations of the last operation, in order

vars == <<pc, items, storage, events, source_items, litems, line_to_item,
          has_line_to_item, selected, pad_y, query, y, content, focus,
          emitted, calls>>

\* the state as one value, threaded through the methods below; err is set when
\* a Python exception is propagating, depth counts the Bus.emit calls in progress
State ==
    [items |-> items, storage |-> storage, events |-> events,
     source_items |-> source_items, litems |-> litems,
     line_to_item |-> line_to_item, has_line_to_item |-> has_line_to_item,
     selected |-> selected, pad_y |-> pad_y, query |-> query, y |-> y,
     content |-> content, focus |-> focus,
     emitted |-> <<>>, calls |-> <<>>, depth |-> 0, err |-> FALSE]

\* the handlers: bound methods of the widgets, and the callables a client of
\* Bus may register (a recorder, one that registers a recorder for a kind,
\* one that emits ITEM_ACTIVATE)
Handler(fn, kind) == [fn |-> fn, kind |-> kind]
on_new_items == Handler("on_new_items", "-")
on_item_read == Handler("on_item_read", "-")
show_detail == Handler("show_detail", "-")
probeA == Handler("probeA", "-")
probeB == Handler("probeB", "-")
Adder(kind) == Handler("adder", kind)
relay == Handler("relay", ITEM_ACTIVATE)

Raise(s) == [s EXCEPT !.err = TRUE]

Min(a, b) == IF a < b THEN a ELSE b
Max(a, b) == IF a > b THEN a ELSE b

\* ------------------------------------------------------------------- Bus
RECURSIVE Emit(_, _, _)

\* Bus.register
Register(s, name, fn) ==
    LET ev == IF name \in DOMAIN s.events
              THEN s.events
              ELSE [k \in DOMAIN s.events \cup {name} |->
                        IF k = name THEN <<>> ELSE s.events[k]]
    IN [s EXCEPT !.events = [ev EXCEPT ![name] = Append(ev[name], fn)]]

\* ----------------------------------------------------------------- Feeds
\* what a feed entry carries: the text of its summary, markup included, one
\* token per tag, per run of text and per newline
Summary ==
    <<"<p>">> \o [i \in 1..(2 * SummaryLines) |-> IF i % 2 = 1 THEN "text" ELSE "\n"]
              \o <<"</p>">>

\* the entries feedparser.parse may return for one source
Entries == [link : Links, updated : Updateds, summary : {Summary}]

\* an entry without the key 'link' (link 0 here): item['link'] raises KeyError
NoLinkEntry == [link |-> 0, updated |-> 1, summary |-> Summary]

\* the entries of one source make parse_feed raise
Raises(entries) == \E n \in 1..Len(entries) : entries[n] = NoLinkEntry

\* json.dump(self.items): every dict becomes an object of the array, key order
\* and list order kept; written here as the tuple of its values
JsonDump(its) ==
    [i \in 1..Len(its) |->
        <<its[i].link, its[i].updated, its[i].summary, its[i].read, its[i].source>>]

\* json.load(f): fresh dicts, in the order of the array
JsonLoad(data) ==
    [i \in 1..Len(data) |->
        [link |-> data[i][1], updated |-> data[i][2], summary |-> data[i][3],
         read |-> data[i][4], source |-> data[i][5]]]

\* load that publishes ItemsLoaded whether or not db.json exists
LoadEmitsWhenAbsent(s) ==
    Emit([s EXCEPT !.items = IF s.storage.exists THEN JsonLoad(s.storage.data)
                              ELSE s.items],
         ITEMS_LOADED, Len(s.storage.data))

\* Feeds.load
Load(s) ==
    IF s.storage.exists
    THEN Emit([s EXCEPT !.items = JsonLoad(s.storage.data)], ITEMS_LOADED,
              Len(s.storage.data))
    ELSE s

\* Feeds.save
Save(s) ==
    IF s.err THEN s
    ELSE [s EXCEPT !.storage = [exists |-> TRUE, data |-> JsonDump(s.items)]]

\* find_one looking at the first item only
FindOneFirstOnly(its, link) ==
    IF its # <<>> /\ its[1].link = link THEN 1 ELSE 0

\* Feeds.find_one(link=...): the position of the first match, 0 for None
FindOne(its, link) ==
    LET hits == {i \in 1..Len(its) : its[i].link = link}
    IN IF hits = {} THEN 0 ELSE CHOOSE i \in hits : \A j \in hits : i <= j

\* parse_feed stamping read and source before it looks the entry up, so that
\* an item already stored is reset too
RECURSIVE ParseFeedRestamp(_, _, _)
ParseFeedRestamp(its, title, entries) ==
    IF entries = <<>> THEN its
    ELSE LET item == Head(entries)
             our == FindOne(its, item.link)
         IN ParseFeedRestamp(
                IF our = 0
                THEN Append(its, [link |-> item.link, updated |-> item.updated,
                                  summary |-> item.summary, read |-> FALSE,
                                  source |-> title])
                ELSE [its EXCEPT ![our].read = FALSE, ![our].source = title],
                title, Tail(entries))

\* Feeds.parse_feed, on the entries that feedparser returned for the url
RECURSIVE ParseFeed(_, _, _)
ParseFeed(its, title, entries) ==
    IF entries = <<>> \/ Head(entries) = NoLinkEntry THEN its
    ELSE LET item == Head(entries)
             our == FindOne(its, item.link)
         IN ParseFeed(IF our = 0
                      THEN Append(its, [link |-> item.link, updated |-> item.updated,
                                        summary |-> item.summary, read |-> FALSE,
                                        source |-> title])
                      ELSE its,
                      title, Tail(entries))

\* the loop of Feeds.refresh over self.sources.items(), from source n on; it
\* ends with the source whose parse_feed raises
RECURSIVE ParseFeeds(_, _, _)
ParseFeeds(its, resp, n) ==
    IF n > Len(Sources) THEN its
    ELSE IF Raises(resp[Sources[n]]) THEN ParseFeed(its, Sources[n], resp[Sources[n]])
    ELSE ParseFeeds(ParseFeed(its, Sources[n], resp[Sources[n]]), resp, n + 1)

\* Feeds.refresh; resp[title] are the entries fetched for that source. An
\* exception of parse_feed is not caught: save and emit are not reached
Refresh(s, resp) ==
    LET parsed == [s EXCEPT !.items = ParseFeeds(s.items, resp, 1)]
        t == Save(parsed)
    IN IF \E n \in 1..Len(Sources) : Raises(resp[Sources[n]])
       THEN Raise(parsed)
       ELSE Emit(t, ITEMS_LOADED, Len(t.items))

\* mark_read publishing inside the if, so only for an item that matched
MarkReadIfFound(s, link, read) ==
    LET t == [s EXCEPT !.items = [i \in 1..Len(s.items) |->
                                     IF s.items[i].link = link
                                     THEN [s.items[i] EXCEPT !.read = read]
                                     ELSE s.items[i]]]
    IN IF \E i \in 1..Len(s.items) : s.items[i].link = link
       THEN Emit(t, ITEM_READ, link)
       ELSE t

\* mark_read ignoring its read argument
MarkReadAlways(s, link, read) ==
    Emit([s EXCEPT !.items = [i \in 1..Len(s.items) |->
                                 IF s.items[i].link = link
                                 THEN [s.items[i] EXCEPT !.read = TRUE]
                                 ELSE s.items[i]]],
         ITEM_READ, link)

\* Feeds.mark_read
MarkRead(s, link, read) ==
    Emit([s EXCEPT !.items = [i \in 1..Len(s.items) |->
                                 IF s.items[i].link = link
                                 THEN [s.items[i] EXCEPT !.read = read]
                                 ELSE s.items[i]]],
         ITEM_READ, link)

\* ------------------------------------------------------------------ List
\* curses.LINES - 2, List.height and Detail.height
Height == Lines - 2

\* List.source_items, as positions in Feeds.items
SourceItems(s) == IF s.source_items THEN [i \in 1..Len(s.items) |-> i] ELSE <<>>

\* List.filter_by(**query): query maps field names to the values wanted
FilterBy(s, q) ==
    SelectSeq(SourceItems(s), LAMBDA i : \A k \in DOMAIN q : s.items[i][k] = q[k])

\* List.query as the dict it is
Query(s) == IF s.query THEN [read |-> FALSE] ELSE <<>>

\* the sort key without the source
KeyLessUpdatedOnly(a, b) == a.updated < b.updated

\* the sort key of List.filter, compared as Python compares tuples
KeyLess(a, b) ==
    \/ SourceRank(a.source) < SourceRank(b.source)
    \/ a.source = b.source /\ a.updated < b.updated

\* sorted(..., reverse=True): descending and stable, so an element goes after
\* the ones already placed whose key is not less than its own
RECURSIVE Sorted(_, _, _)
Sorted(s, todo, done) ==
    IF todo = <<>> THEN done
    ELSE LET x == Head(todo)
             before == {j \in 1..Len(done) : ~KeyLess(s.items[done[j]], s.items[x])}
             n == IF before = {} THEN 0
                  ELSE CHOOSE j \in before : \A k \in before : k <= j
         IN Sorted(s, Tail(todo),
                   SubSeq(done, 1, n) \o <<x>> \o SubSeq(done, n + 1, Len(done)))

\* List.filter
Filter(s) == [s EXCEPT !.litems = Sorted(s, FilterBy(s, Query(s)), <<>>)]

\* List.selected_item: [err, item], item the position in Feeds.items, 0 for None
SelectedItem(s) ==
    IF s.litems = <<>> THEN [err |-> FALSE, item |-> 0]
    ELSE IF ~s.has_line_to_item \/ s.selected >= Len(s.line_to_item)
    THEN [err |-> TRUE, item |-> 0]
    ELSE LET label == s.line_to_item[s.selected + 1]
         IN IF label.num < 0 THEN [err |-> FALSE, item |-> 0]
            ELSE IF label.num >= Len(s.litems) THEN [err |-> TRUE, item |-> 0]
            ELSE [err |-> FALSE, item |-> s.litems[label.num + 1]]

\* the rows List.render_again builds for self.items[i..], 0-based i
RECURSIVE Rows(_, _, _)
Rows(s, i, last_source) ==
    IF i >= Len(s.litems) THEN <<>>
    ELSE LET src == s.items[s.litems[i + 1]].source
             row == [num |-> i, source |-> src, count |-> 0]
         IN IF last_source # src
            THEN <<[num |-> -1, source |-> src,
                    count |-> Len(FilterBy(s, [source |-> src]))], row>>
                 \o Rows(s, i + 1, src)
            ELSE <<row>> \o Rows(s, i + 1, src)

\* emit(Bus.ITEM_ACTIVATE, self.selected_item())
EmitSelected(s) ==
    IF s.err THEN s
    ELSE LET sel == SelectedItem(s)
         IN IF sel.err THEN Raise(s) ELSE Emit(s, ITEM_ACTIVATE, sel.item)

\* List.render_item: draws row i; raises when line_to_item is unset, when i
\* is not a row of it, or when the row has no item to take the bold from
RenderItem(s, i) ==
    IF s.err THEN s
    ELSE IF ~s.has_line_to_item \/ i >= Len(s.line_to_item) THEN Raise(s)
    ELSE IF s.litems = <<>> \/ s.line_to_item[i + 1].num >= Len(s.litems) THEN Raise(s)
    ELSE s

\* the loop of List.render_again that draws every row, from row i on
RECURSIVE RenderItems(_, _)
RenderItems(s, i) ==
    IF s.err \/ i >= Len(s.line_to_item) THEN s
    ELSE RenderItems(RenderItem(s, i), i + 1)

\* List.render_again
RenderAgain(s) ==
    IF s.err THEN s
    ELSE EmitSelected(RenderItems([s EXCEPT !.line_to_item = Rows(s, 0, "None"),
                                            !.has_line_to_item = TRUE], 0))

\* List.on_new_items
OnNewItems(s, arg) ==
    RenderAgain(Filter([s EXCEPT !.source_items = TRUE, !.selected = 0, !.pad_y = 0]))

\* on_item_read that goes back to the first row before it redraws
OnItemReadReset(s, url) == RenderAgain([s EXCEPT !.selected = 0, !.pad_y = 0])

\* on_item_read that runs the filter again before it redraws
OnItemReadRefilter(s, url) == RenderAgain(Filter(s))

\* List.on_item_read
OnItemRead(s, url) == RenderAgain(s)

\* focus_next without the min() that keeps the selection on a row
FocusNextNoClamp(s, n) ==
    LET a == RenderItem(s, s.selected)
        sel == a.selected + n
        py == IF n > 1 THEN sel ELSE a.pad_y
        b == [a EXCEPT !.selected = sel,
                       !.pad_y = IF sel >= py + Lines THEN py + 1 ELSE py]
    IN IF a.err THEN a ELSE EmitSelected(RenderItem(b, b.selected))

\* List.focus_next
FocusNext(s, n) ==
    LET a == RenderItem(s, s.selected)
        sel == Min(Len(a.line_to_item) - 1, a.selected + n)
        py == IF n > 1 THEN sel ELSE a.pad_y
        b == [a EXCEPT !.selected = sel,
                       !.pad_y = IF sel >= py + Lines THEN py + 1 ELSE py]
    IN IF a.err THEN a ELSE EmitSelected(RenderItem(b, b.selected))

\* List.focus_prev
FocusPrev(s, n) ==
    LET a == RenderItem(s, s.selected)
        sel == Max(0, a.selected - n)
        b == [a EXCEPT !.selected = sel,
                       !.pad_y = IF n > 1 THEN sel
                                 ELSE IF sel + 1 = a.pad_y THEN a.pad_y - 1
                                 ELSE a.pad_y]
    IN IF a.err THEN a ELSE EmitSelected(RenderItem(b, b.selected))

\* List.handle
ListHandle(s, k) ==
    IF s.err THEN s
    ELSE CASE k = "KEY_DOWN" -> FocusNext(s, 1)
           [] k = "KEY_UP" -> FocusPrev(s, 1)
           [] k = "KEY_NPAGE" -> FocusNext(s, Height)
           [] k = "KEY_PPAGE" -> FocusPrev(s, Height)
           [] k = "a" -> RenderAgain(Filter([s EXCEPT !.query = ~s.query]))
           [] OTHER -> s

\* ---------------------------------------------------------------- Detail
IsTag(tok) == tok \in {"<p>", "</p>"}

\* html_to_text: re.sub(r'</?[^>]+>', '', s)
HtmlToText(text) == SelectSeq(text, LAMBDA tok : ~IsTag(tok))

\* str.count('\n')
CountNewlines(text) == Len(SelectSeq(text, LAMBDA tok : tok = "\n"))

\* Detail.show_detail; item is a position in Feeds.items, 0 for None
ShowDetail(s, item) ==
    [s EXCEPT !.y = 0,
              !.content = IF item # 0 THEN HtmlToText(s.items[item].summary) ELSE <<>>]

\* Detail.handle
DetailHandle(s, k) ==
    LET lines == CountNewlines(s.content)
    IN IF s.err THEN s
       ELSE IF k = "KEY_DOWN" /\ s.y + 1 + Lines <= lines THEN [s EXCEPT !.y = s.y + 1]
       ELSE IF k = "KEY_UP" /\ s.y > 0 THEN [s EXCEPT !.y = s.y - 1]
       ELSE IF k = "KEY_PPAGE" THEN [s EXCEPT !.y = Max(0, s.y - Height)]
       ELSE IF k = "KEY_NPAGE" THEN [s EXCEPT !.y = Min(lines - 1, s.y + Height)]
       ELSE s

\* ------------------------------------------------------ Bus.emit, the calls
\* fn(*wargs): the call of one handler
Call(s, fn, arg) ==
    LET t == [s EXCEPT !.calls = Append(s.calls, [fn |-> fn, arg |-> arg,
                                                  depth |-> s.depth])]
    IN CASE fn.fn = "on_new_items" -> OnNewItems(t, arg)
         [] fn.fn = "on_item_read" -> OnItemRead(t, arg)
         [] fn.fn = "show_detail" -> ShowDetail(t, arg)
         [] fn.fn = "adder" -> Register(t, fn.kind, probeB)
         [] fn.fn = "relay" -> Emit(t, fn.kind, arg)
         [] OTHER -> t

\* the loop of emit over every list of the bus, whatever the kind
RECURSIVE EmitFromAll(_, _, _, _)
EmitFromAll(s, name, arg, i) ==
    LET all == IF ITEM_READ \in DOMAIN s.events /\ name # ITEM_READ
               THEN s.events[name] \o s.events[ITEM_READ]
               ELSE s.events[name]
    IN IF s.err \/ i >= Len(all) THEN s
       ELSE EmitFromAll(Call(s, all[i + 1], arg), name, arg, i + 1)

\* the for loop of Bus.emit from position i (0-based) of the list it iterates:
\* the list object itself, so what a handler appends to it is reached too
RECURSIVE EmitFrom(_, _, _, _)
EmitFrom(s, name, arg, i) ==
    IF s.err \/ i >= Len(s.events[name]) THEN s
    ELSE EmitFrom(Call(s, s.events[name][i + 1], arg), name, arg, i + 1)

\* Bus.emit
Emit(s, name, arg) ==
    LET t == [s EXCEPT !.emitted = Append(s.emitted, [kind |-> name, arg |-> arg,
                                                      depth |-> s.depth]),
                       !.depth = s.depth + 1]
        u == IF name \in DOMAIN t.events THEN EmitFrom(t, name, arg, 0) ELSE t
    IN IF s.err THEN s ELSE [u EXCEPT !.depth = s.depth]

\* ------------------------------------------------------------------ main
\* the body of the key 'n' with focus_next called whatever the flag became
ToggleReadAdvance(s) ==
    LET sel == SelectedItem(s)
        m == MarkRead(s, s.items[sel.item].link, ~s.items[sel.item].read)
    IN IF sel.err THEN Raise(s)
       ELSE IF sel.item = 0 THEN s
       ELSE Save(FocusNext(m, 1))

\* the body of the key 'n' in main
ToggleRead(s) ==
    LET sel == SelectedItem(s)
        m == MarkRead(s, s.items[sel.item].link, ~s.items[sel.item].read)
    IN IF sel.err THEN Raise(s)
       ELSE IF sel.item = 0 THEN s
       ELSE Save(IF ~m.err /\ m.items[sel.item].read THEN FocusNext(m, 1) ELSE m)

\* a turn in which marking an item also gives the focus to the detail
PressFocusOnRead(s, k, resp) ==
    LET a == CASE k = "KEY_RIGHT" -> [s EXCEPT !.focus = 1]
               [] k = "KEY_LEFT" -> [s EXCEPT !.focus = 0]
               [] k = "n" -> [ToggleRead(s) EXCEPT !.focus = 1]
               [] k = "r" -> Refresh(s, resp)
               [] OTHER -> s
    IN IF a.focus = 0 THEN ListHandle(a, k) ELSE DetailHandle(a, k)

\* one turn of the while loop of main for a key other than 'q'; resp is what
\* the feeds return if the turn refreshes
Press(s, k, resp) ==
    LET a == CASE k = "KEY_RIGHT" -> [s EXCEPT !.focus = 1]
               [] k = "KEY_LEFT" -> [s EXCEPT !.focus = 0]
               [] k = "n" -> ToggleRead(s)
               [] k = "r" -> Refresh(s, resp)
               [] OTHER -> s
    IN IF a.focus = 0 THEN ListHandle(a, k) ELSE DetailHandle(a, k)

\* sequences over S of length at most n
SeqsUpTo(S, n) == UNION {[1..k -> S] : k \in 0..n}

\* what the feeds of one refresh cycle may return, per source title
Titles == {Sources[n] : n \in 1..Len(Sources)}

\* the number of entries of a response
NumEntries(r) == Len(r["X"]) + Len(r["Y"])

Responses ==
    {r \in [Titles -> SeqsUpTo(Entries, MaxResp)] : NumEntries(r) <= MaxResp}

NoResponse == [t \in Titles |-> <<>>]

\* the responses in which one entry has no link
Failing ==
    {r \in [Titles -> SeqsUpTo(Entries \cup {NoLinkEntry}, MaxResp)] :
        /\ NumEntries(r) <= MaxResp
        /\ Cardinality({<<t, n>> \in Titles \X (1..MaxResp) :
                           n <= Len(r[t]) /\ r[t][n] = NoLinkEntry}) = 1}

\* the store is not grown beyond MaxItems items: one more than one per link
MaxItems == MaxLink + 1

\* the objects after their constructors (Feeds, List, Detail, Status) and
\* the bus after the register calls of List and Detail; db is the file db.json
Constructed(db) ==
    [items |-> <<>>, storage |-> db,
     events |-> [k \in Kinds |->
                    IF k = ITEMS_LOADED THEN <<on_new_items>>
                    ELSE IF k = ITEM_READ THEN <<on_item_read>>
                    ELSE <<show_detail>>],
     source_items |-> FALSE, litems |-> <<>>, line_to_item |-> <<>>,
     has_line_to_item |-> FALSE, selected |-> 0, pad_y |-> 0, query |-> TRUE,
     y |-> 0, content |-> <<>>, focus |-> 0, emitted |-> <<>>, calls |-> <<>>,
     depth |-> 0, err |-> FALSE]

\* no db.json yet
NoFile == [exists |-> FALSE, data |-> <<>>]

\* the variables have the values of the threaded state t
Is(t) ==
    /\ items = t.items
    /\ storage = t.storage
    /\ events = t.events
    /\ source_items = t.source_items
    /\ litems = t.litems
    /\ line_to_item = t.line_to_item
    /\ has_line_to_item = t.has_line_to_item
    /\ selected = t.selected
    /\ pad_y = t.pad_y
    /\ query = t.query
    /\ y = t.y
    /\ content = t.content
    /\ focus = t.focus
    /\ emitted = t.emitted
    /\ calls = t.calls

Init ==
    /\ pc = "start"
    /\ Is(Constructed(NoFile))

\* the variables take the values of the threaded state t in the next state
Becomes(t) ==
    /\ items' = t.items
    /\ storage' = t.storage
    /\ events' = t.events
    /\ source_items' = t.source_items
    /\ litems' = t.litems
    /\ line_to_item' = t.line_to_item
    /\ has_line_to_item' = t.has_line_to_item
    /\ selected' = t.selected
    /\ pad_y' = t.pad_y
    /\ query' = t.query
    /\ y' = t.y
    /\ content' = t.content
    /\ focus' = t.focus
    /\ emitted' = t.emitted
    /\ calls' = t.calls

\* feeds.load() in main, before the loop
MainLoad ==
    /\ pc = "start"
    /\ LET t == Load(State)
       IN Becomes(t) /\ pc' = IF t.err THEN "crashed" ELSE "loop"

\* one turn of the loop on key k
Turn(k, resp) ==
    /\ pc = "loop"
    /\ LET t == Press(State, k, resp)
       IN /\ Len(t.items) <= MaxItems
          /\ Becomes(t)
          /\ pc' = IF t.err THEN "crashed" ELSE "loop"

KeyDown == Turn("KEY_DOWN", NoResponse)
KeyUp == Turn("KEY_UP", NoResponse)
KeyNPage == Turn("KEY_NPAGE", NoResponse)
KeyPPage == Turn("KEY_PPAGE", NoResponse)
KeyLeft == Turn("KEY_LEFT", NoResponse)
KeyRight == Turn("KEY_RIGHT", NoResponse)
KeyN == Turn("n", NoResponse)
KeyA == Turn("a", NoResponse)
KeyR == \E resp \in Responses \cup Failing : NumEntries(resp) <= 1 /\ Turn("r", resp)

\* 'q' leaves the loop and the process ends
KeyQ ==
    /\ pc = "loop"
    /\ pc' = "exited"
    /\ UNCHANGED <<items, storage, events, source_items, litems, line_to_item,
                   has_line_to_item, selected, pad_y, query, y, content, focus,
                   emitted, calls>>

\* the program is started again: db.json is what the last run left
Relaunch ==
    /\ pc \in {"exited", "crashed"}
    /\ pc' = "start"
    /\ Becomes(Constructed(storage))

Next ==
    \/ MainLoad
    \/ KeyDown
    \/ KeyUp
    \/ KeyNPage
    \/ KeyPPage
    \/ KeyLeft
    \/ KeyRight
    \/ KeyN
    \/ KeyA
    \/ KeyR
    \/ KeyQ
    \/ Relaunch

Spec == Init /\ [][Next]_vars

\* ------------------------------------------- the item store, called directly
\* a client calls feeds.load()
CallLoad ==
    /\ Becomes(Load(State))
    /\ UNCHANGED pc

\* a client calls feeds.save()
CallSave ==
    /\ Becomes(Save(State))
    /\ UNCHANGED pc

\* a client calls feeds.refresh(), the feeds returning resp
CallRefresh ==
    \E resp \in Responses \cup Failing :
        LET t == Refresh(State, resp)
        IN /\ Len(t.items) <= MaxItems
           /\ Becomes(t)
           /\ UNCHANGED pc

\* a client calls feeds.mark_read(link, read)
CallMarkRead ==
    \E link \in Links, read \in BOOLEAN :
        /\ Becomes(MarkRead(State, link, read))
        /\ UNCHANGED pc

FeedsNext ==
    \/ CallLoad
    \/ CallSave
    \/ CallRefresh
    \/ CallMarkRead

FeedsSpec == Init /\ [][FeedsNext]_vars

\* ------------------------------------------------- the bus, called directly
\* the payloads a client emits
Payloads == {1}

\* the callables a client registers for kind: recorders, one that registers a
\* recorder for the same kind, and (where it cannot recurse) one that emits
\* ITEM_ACTIVATE
Callables(kind) ==
    {probeA, probeB, Adder(kind)} \cup (IF kind = ITEM_ACTIVATE THEN {} ELSE {relay})

\* Bus(): no kind has a list yet
NoEvents == [k \in {} |-> <<>>]

BusInit ==
    /\ pc = "start"
    /\ Is([Constructed(NoFile) EXCEPT !.events = NoEvents])

\* every list of handlers is within the bound
Bounded(ev) == \A k \in DOMAIN ev : Len(ev[k]) <= MaxHandlers

\* a client calls bus.register(kind, fn)
CallRegister ==
    \E kind \in Kinds :
      \E fn \in Callables(kind) :
        LET t == Register(State, kind, fn)
        IN /\ Bounded(t.events)
           /\ Becomes(t)
           /\ UNCHANGED pc

\* a client calls bus.emit(kind, payload)
CallEmit ==
    \E kind \in Kinds, payload \in Payloads :
        LET t == Emit(State, kind, payload)
        IN /\ Bounded(t.events)
           /\ Becomes(t)
           /\ UNCHANGED pc

BusNext ==
    \/ CallRegister
    \/ CallEmit

BusSpec == BusInit /\ [][BusNext]_vars

\* =================================================================== claims
\* the calls a Bus.emit made itself, not the ones its handlers caused
TopCalls(t) == SelectSeq(t.calls, LAMBDA c : c.depth = 1)

\* the calls of the handlers hs, in order, with payload arg
CallsOf(hs, arg) == [i \in 1..Len(hs) |-> [fn |-> hs[i], arg |-> arg, depth |-> 1]]

\* the list of handlers of kind in ev, [] when it has none
HandlersOf(ev, kind) == IF kind \in DOMAIN ev THEN ev[kind] ELSE <<>>

\* every entry of resp has its link in the store its
AllPresent(its, resp) ==
    \A title \in Titles : \A n \in 1..Len(resp[title]) :
        FindOne(its, resp[title][n].link) # 0

\* C1: the store never holds two items with the same link
C1_NoDuplicateLinks ==
    \A i, j \in 1..Len(items) : items[i].link = items[j].link => i = j

\* C1: a refresh has filled the store with one item per link
C1_Witness ==
    /\ Len(items) = MaxLink
    /\ emitted # <<>>
    /\ emitted[1].kind = ITEMS_LOADED
    /\ storage.exists
    /\ Len(storage.data) = MaxLink

\* C2: after a refresh with the responses resp, a second refresh with the same
\* responses leaves the items (order, read flags, sources) and the file as they
\* are; and a refresh all of whose entries are already stored changes no item
C2_RefreshIdempotent ==
    \A resp \in Responses :
        LET t == Refresh(State, resp)
            u == Refresh(t, resp)
        IN /\ u.items = t.items
           /\ u.storage = t.storage
           /\ AllPresent(items, resp) => t.items = items

\* C2: a refresh was run on a store that holds a read item and whose links
\* cover a non-empty response
C2_Witness ==
    /\ emitted # <<>>
    /\ emitted[1].kind = ITEMS_LOADED
    /\ \E i \in 1..Len(items) : items[i].read
    /\ \E resp \in Responses :
          /\ NumEntries(resp) = MaxResp
          /\ AllPresent(items, resp)
          /\ Refresh(State, resp).items = items

\* C3: mark_read(link, read) publishes ItemRead once, with that link, whatever
\* the flag was, and without touching the store when no item has the link
C3_MarkReadPublishesOnce ==
    \A link \in Links, read \in BOOLEAN :
        LET t == MarkRead(State, link, read)
        IN /\ SelectSeq(t.emitted, LAMBDA e : e.kind = ITEM_READ)
                = <<[kind |-> ITEM_READ, arg |-> link, depth |-> 0]>>
           /\ FindOne(items, link) = 0 => t.items = items /\ t.storage = storage

\* C3: mark_read was called with a link that no stored item has
C3_Witness ==
    /\ emitted # <<>>
    /\ emitted[1].kind = ITEM_READ
    /\ FindOne(items, emitted[1].arg) = 0
    /\ items # <<>>

\* C4 as stated: mark_read(link, True) then mark_read(link, False) gives every
\* item with that link the read flag it had
C4_RestoresOriginal ==
    \A i \in 1..Len(items) :
        LET a == MarkRead(State, items[i].link, TRUE)
            b == MarkRead(a, items[i].link, FALSE)
        IN b.items[i].read = items[i].read

\* C4 amended: the two calls leave the item unread (read after the first,
\* unread after the second), which is its original flag when it was unread
C4_EndsUnread ==
    \A i \in 1..Len(items) :
        LET a == MarkRead(State, items[i].link, TRUE)
            b == MarkRead(a, items[i].link, FALSE)
        IN /\ a.items[i].read
           /\ ~b.items[i].read
           /\ ~items[i].read => b.items[i].read = items[i].read
           /\ \A j \in 1..Len(items) :
                 items[j].link # items[i].link => b.items[j] = items[j]

\* C4: mark_read has just set the flag of a stored item to False while another
\* item is read
C4_Witness ==
    /\ emitted # <<>>
    /\ emitted[1].kind = ITEM_READ
    /\ \E i, j \in 1..Len(items) :
          /\ items[i].link = emitted[1].arg
          /\ ~items[i].read
          /\ items[j].read

\* C5: emit(kind, payload) calls the handlers registered for kind, each once
\* per registration and in registration order, all before it returns, and
\* none when the kind has no list; handlers of other kinds are not called by it
C5_EmitDispatch ==
    \A kind \in Kinds, payload \in Payloads :
        LET t == Emit(State, kind, payload)
        IN /\ TopCalls(t) = CallsOf(HandlersOf(t.events, kind), payload)
           /\ HandlersOf(events, kind) = <<>> => t.calls = <<>> /\ t.events = events
           /\ SubSeq(TopCalls(t), 1, Len(HandlersOf(events, kind)))
                = CallsOf(HandlersOf(events, kind), payload)

\* C5: an emit has called two different handlers in the order of their
\* registration while another kind has a handler that was not called
C5_Witness ==
    /\ emitted # <<>>
    /\ emitted[1].kind \in DOMAIN events
    /\ events[emitted[1].kind] = <<probeB, probeA>>
    /\ calls = CallsOf(<<probeB, probeA>>, emitted[1].arg)
    /\ \E k \in DOMAIN events : k # emitted[1].kind /\ events[k] = <<Adder(k)>>

\* C6 as stated: the handlers an emit calls are the ones registered for the
\* kind when the emit starts
C6_EmitSnapshot ==
    \A kind \in Kinds, payload \in Payloads :
        TopCalls(Emit(State, kind, payload))
            = CallsOf(HandlersOf(events, kind), payload)

\* an ItemsLoaded was delivered to the list, or the list toggled its filter
LoadedOrToggled ==
    \/ MainLoad /\ storage.exists
    \/ KeyR
    \/ KeyA /\ focus = 0

\* a move of the selection by the list: one row or one page, down or up
ListMove == focus = 0 /\ (KeyDown \/ KeyUp \/ KeyNPage \/ KeyPPage)

\* the items of source src that match the active query
Matching(src) ==
    FilterBy(State, IF query THEN [read |-> FALSE, source |-> src]
                    ELSE [source |-> src])

\* every row is a header with the count of the matching items of its source,
\* or an item row with an index into the filtered items
RowsConsistent ==
    \A p \in 1..Len(line_to_item) :
        IF line_to_item[p].num < 0
        THEN line_to_item[p].count = Len(Matching(line_to_item[p].source))
        ELSE line_to_item[p].num \in 0..(Len(litems) - 1)

\* C7 as stated: after an ItemsLoaded or a filter toggle every header row
\* counts the items of its source that match the active query and every item
\* row references an index of the filtered items
C7_ProjectionConsistent ==
    [][LoadedOrToggled /\ pc' = "loop" => RowsConsistent']_vars

\* the positions of the header rows, and the source of the item of a row
HeaderRows == {p \in 1..Len(line_to_item) : line_to_item[p].num < 0}
ItemRows == {p \in 1..Len(line_to_item) : line_to_item[p].num >= 0}
RowItem(p) == items[litems[line_to_item[p].num + 1]]

\* C8: one header per source of the filtered items, each followed by all the
\* item rows of that source, the groups by descending source, the item rows
\* of a group by descending updated, the item rows being the filtered items in
\* their order
C8_GroupedAndOrdered ==
    has_line_to_item =>
        /\ \A p, q \in HeaderRows :
              p < q => SourceRank(line_to_item[p].source) > SourceRank(line_to_item[q].source)
        /\ {line_to_item[p].source : p \in HeaderRows}
              = {items[litems[n]].source : n \in 1..Len(litems)}
        /\ [n \in 1..Len(litems) |-> n - 1]
              = [n \in 1..Cardinality(ItemRows) |->
                    line_to_item[CHOOSE p \in ItemRows :
                                    Cardinality({r \in ItemRows : r <= p}) = n].num]
        /\ \A p \in ItemRows :
              /\ p > 1
              /\ LET h == CHOOSE h \in HeaderRows :
                              h < p /\ \A g \in HeaderRows : g < p => g <= h
                 IN line_to_item[h].source = RowItem(p).source
        /\ \A p \in HeaderRows :
              p < Len(line_to_item) /\ (p + 1) \in ItemRows
        /\ \A p, q \in ItemRows :
              p < q /\ RowItem(p).source = RowItem(q).source
                  => RowItem(p).updated >= RowItem(q).updated

\* C8: the list shows two items of one source, the one stored second first
\* because its updated stamp is the greater
C8_Witness ==
    /\ pc = "loop"
    /\ litems = <<2, 1>>
    /\ Len(line_to_item) = 3
    /\ items[1].source = items[2].source
    /\ items[2].updated > items[1].updated

\* C9: a move made with the selection on a row of a non-empty projection
\* leaves the selection on a row of it, and raises nothing
C9_SelectionInBounds ==
    [][ListMove /\ has_line_to_item /\ selected \in 0..(Len(line_to_item) - 1)
           => /\ pc' = "loop"
              /\ line_to_item' = line_to_item
              /\ selected' \in 0..(Len(line_to_item) - 1)]_vars

\* C9: a page down was cut short at the last of four rows
C9_Witness ==
    /\ pc = "loop"
    /\ Len(line_to_item) = 4
    /\ selected = 3
    /\ pad_y = 3

\* the selected row is one of the rows List.refresh draws: pad rows pad_y to
\* pad_y + height
InView == pad_y <= selected /\ selected <= pad_y + Height

\* C10 as stated: a move keeps the selected row among the rows drawn
C10_SelectedInView ==
    [][ListMove /\ InView /\ pc' = "loop" => InView']_vars

\* the step published an event of this kind
Published(kind) == \E i \in 1..Len(emitted') : emitted'[i].kind = kind

\* the payloads of the ItemActivated events the step published, 0 for none
Activated == {emitted'[i].arg : i \in {j \in 1..Len(emitted') :
                                          emitted'[j].kind = ITEM_ACTIVATE}}

\* C11 as stated: a step that delivers ItemsLoaded to the list leaves the
\* selection and the scroll offset at 0 and publishes ItemActivated with an
\* item when the projection is non-empty, with none only when it is empty
C11_LoadedSelectsFirstItem ==
    [][(MainLoad \/ KeyR) /\ Published(ITEMS_LOADED) /\ pc' = "loop"
           => /\ selected' = 0
              /\ pad_y' = 0
              /\ Activated # {}
              /\ \A a \in Activated : a = 0 <=> litems' = <<>>]_vars

\* C12 as stated: when one source of a refresh fails, the refresh raises
\* nothing, the entries of the other sources are in the store, the store is
\* persisted and ItemsLoaded is published
C12_RefreshIsolatesFailure ==
    \A resp \in Failing :
        LET t == Refresh(State, resp)
        IN /\ ~t.err
           /\ \A title \in Titles : \A n \in 1..Len(resp[title]) :
                 ~Raises(resp[title]) => FindOne(t.items, resp[title][n].link) # 0
           /\ t.storage = [exists |-> TRUE, data |-> JsonDump(t.items)]
           /\ \E i \in 1..Len(t.emitted) : t.emitted[i].kind = ITEMS_LOADED

\* C13: load() on an existing db.json makes the collection the persisted
\* sequence and publishes exactly one ItemsLoaded, carrying that collection;
\* without db.json it raises nothing, leaves the collection as it is (empty
\* at startup) and publishes nothing
C13_LoadPublishesOnce ==
    LET t == Load(State)
        loaded == {i \in 1..Len(t.emitted) : t.emitted[i].kind = ITEMS_LOADED}
    IN /\ ~t.err
       /\ t.storage = storage
       /\ IF storage.exists
          THEN /\ JsonDump(t.items) = storage.data
               /\ Cardinality(loaded) = 1
               /\ \A i \in loaded : t.emitted[i].arg = Len(t.items)
                                    /\ t.emitted[i].depth = 0
               /\ t.source_items
          ELSE /\ t.items = items
               /\ t.emitted = <<>>
               /\ t.calls = <<>>

\* C13: ItemsLoaded was published with a collection equal to the two
\* persisted items, one of them read, and the list shows the unread one
C13_Witness ==
    /\ storage.exists
    /\ Len(storage.data) = 2
    /\ items = JsonLoad(storage.data)
    /\ items[1].read /\ ~items[2].read
    /\ Len(emitted) >= 1
    /\ emitted[1] = [kind |-> ITEMS_LOADED, arg |-> 2, depth |-> 0]
    /\ litems = <<2>>

\* C14: 'n' on an item row flips the read flag of that item and of no other,
\* and moves the selection down one row, stopping at the last row, exactly
\* when the item became read; 'n' on a header row or on an empty projection
\* leaves the store as it is and publishes no ItemRead
C14_ToggleSelected ==
    [][KeyN /\ ~SelectedItem(State).err
          => LET p == SelectedItem(State).item
             IN /\ pc' = "loop"
                /\ IF p # 0
                   THEN /\ items' = [items EXCEPT ![p].read = ~items[p].read]
                        /\ selected' = IF items'[p].read
                                       THEN Min(Len(line_to_item) - 1, selected + 1)
                                       ELSE selected
                   ELSE /\ items' = items
                        /\ storage' = storage
                        /\ ~Published(ITEM_READ)]_vars

\* C14: 'n' marked the item of the second of four rows read and the selection
\* moved to the third row
C14_Witness ==
    /\ pc = "loop"
    /\ \E i \in 1..Len(emitted) : emitted[i].kind = ITEM_READ
    /\ Len(line_to_item) = 4
    /\ selected = 2
    /\ line_to_item[2].num >= 0
    /\ items[litems[line_to_item[2].num + 1]].read

\* C15 as stated: 'a' with the list focused flips the unread-only predicate
\* and leaves the selection at 0, on a row of the new projection if it has rows
C15_ToggleResetsSelection ==
    [][KeyA /\ focus = 0
          => /\ pc' = "loop"
             /\ query' = ~query
             /\ selected' = 0
             /\ (line_to_item' # <<>> => selected' < Len(line_to_item'))]_vars

\* C16 as stated: the offset of the detail view is never negative and never
\* past the last line of the content
C16_DetailOffsetInRange == y >= 0 /\ y <= CountNewlines(content)

\* a step of the running program that is not the left or the right key: the
\* load at startup, any other key, with the events it publishes
OtherStep == pc' # "start" /\ ~KeyRight /\ ~KeyLeft

\* C17: the focus is the list (0) or the detail (1), it is the list when the
\* program starts, right gives it to the detail, left to the list, and no
\* other key and no event published during a step changes it
C17_FocusMachine ==
    /\ [](focus \in {0, 1} /\ (pc = "start" => focus = 0))
    /\ [][/\ KeyRight => focus' = 1
          /\ KeyLeft => focus' = 0
          /\ OtherStep => focus' = focus]_vars

\* C17: an item was marked read while the detail had the focus, and the
\* detail still has it
C17_Witness ==
    /\ pc = "loop"
    /\ focus = 1
    /\ \E i \in 1..Len(emitted) : emitted[i].kind = ITEM_READ

\* C18: whenever an ItemRead is published, for whatever link, the list has
\* the same selection index and the same scroll offset after handling it
C18_ItemReadKeepsSelection ==
    \A link \in Links :
        LET t == Emit(State, ITEM_READ, link)
        IN /\ \E i \in 1..Len(t.calls) : t.calls[i].fn = on_item_read
           /\ t.selected = selected
           /\ t.pad_y = pad_y

\* C18: an ItemRead arrived while the list was scrolled down to its fourth
\* row, and the list is still there
C18_Witness ==
    /\ pc = "loop"
    /\ \E i \in 1..Len(calls) : calls[i].fn = on_item_read
    /\ selected = 3
    /\ pad_y = 3

\* C19: with the unread-only filter active, 'n' on an unread item marks it
\* read and leaves the filtered items and the rows as they were, the item,
\* now read, still among them; no press of 'n' changes the filtered items
C19_ReadItemKeepsRow ==
    [][KeyN => /\ litems' = litems
               /\ LET sel == SelectedItem(State)
                  IN query /\ ~sel.err /\ sel.item # 0 /\ ~items[sel.item].read
                        => /\ pc' = "loop"
                           /\ items'[sel.item].read
                           /\ \E n \in 1..Len(litems') : litems'[n] = sel.item
                           /\ line_to_item' = line_to_item]_vars

\* C19: the unread-only list still shows an item that 'n' has just marked read
C19_Witness ==
    /\ pc = "loop"
    /\ query
    /\ \E i \in 1..Len(emitted) : emitted[i].kind = ITEM_READ
    /\ \E n \in 1..Len(litems) : items[litems[n]].read

\* C20 as stated: an arrow or page key handled by a list without rows raises
\* nothing, leaves the selection at 0 and publishes ItemActivated with none
C20_EmptyListMove ==
    [][ListMove /\ line_to_item = <<>>
          => /\ pc' = "loop"
             /\ selected' = 0
             /\ Activated = {0}]_vars

====
